---- MODULE Spec2Model ----
(***************************************************************************)
(* The sheet diff/sync engine of aiter8: DataSheet.start_update and the    *)
(* _UpdateContext context manager, in its two variants                     *)
(*   src/src/iter8/data_sheet.py   (variant "iter8",  the one the tests    *)
(*                                  import)                                *)
(*   src/src/aiter8/data_sheet.py  (variant "aiter8", the order-preserving *)
(*                                  rewrite).                              *)
(*                                                                         *)
(* A DataFrame is a record [columns, data]: columns is the ordered column  *)
(* index, data maps a row label and a column name to a cell.  A cell is a  *)
(* scalar drawn from Values, or NaN, the one missing marker (None, np.nan  *)
(* and pd.NA all answer True to pd.isna).  The scalars of Values are       *)
(* pairwise unequal under Python's ==.  The row index is never changed by  *)
(* the scope.  The caller's statements (with-blocks entered, mutations of  *)
(* the working copy) are counted and bounded by MaxSteps.                  *)
(*                                                                         *)
(* Spec is the update scope on a loaded snapshot.  DataSheet.from_sheet    *)
(* and llm_json (src/src/aiter8/llm.py) are functions of their inputs and  *)
(* run under specifications of their own, SpecLoader and SpecLlm, which    *)
(* draw the inputs in the initial state; each specification leaves the     *)
(* variables of the others alone.                                          *)
(***************************************************************************)
EXTENDS Integers, Sequences, FiniteSets, TLC

VARIABLES
    variant,      \* which data_sheet.py is running: "iter8" or "aiter8"
    original_df,  \* _UpdateContext.original_df: the retained snapshot S
    copy_df,      \* _UpdateContext.copy_df: the working copy
    pc,           \* "idle": outside a with-block; "scope": inside its body
    before,       \* S as it was when the with-block was entered
    updates,      \* the list __exit__ got from _calculate_updates
    calls,        \* the batch_update calls of the last __exit__
    printed,      \* what the last __exit__ printed
    outcome,      \* how the last with-statement ended
    raised,       \* whether an exception left the last with-statement
    nSteps,       \* with-blocks entered and mutations done so far
    aliased,      \* whether the working copy and S are one object
    ld,           \* a call of DataSheet.from_sheet: its records and result
    llm,          \* a call of llm_json: the API's answer and the result
    remote,       \* the worksheet: its cells, and whether every write so far
                  \* was applied in full
    ctx2,         \* a second _UpdateContext open on the same DataSheet
    run           \* a run of test_sample_2 of experiments/010-first/sample3.py

vars == <<variant, original_df, copy_df, pc, before, updates, calls, printed,
          outcome, raised, nSteps, aliased, ld, llm, remote, ctx2, run>>

-----------------------------------------------------------------------------
(* Bounds *)

NRows == 2
MaxSteps == 3
MaxLen == 5

-----------------------------------------------------------------------------
(* The data *)

NaN == "NaN"
Values == {"", "x"}
Cells == Values \cup {NaN}

Rows == 0 .. (NRows - 1)
RowSeq == [i \in 1 .. NRows |-> i - 1]

\* The columns of the loaded sheet, in sheet order.
LoadedColumns == <<"id", "col_b">>
\* Every column name, the loaded ones and the two a scope may add (verse,
\* image), in the order Python's sorted() gives strings.
Alphabetical == <<"col_b", "id", "image", "verse">>
ColumnNames == {Alphabetical[i] : i \in 1 .. Len(Alphabetical)}

Range(s) == {s[i] : i \in 1 .. Len(s)}
IndexOf(s, x) == CHOOSE i \in 1 .. Len(s) : s[i] = x

\* sorted(list(names)): the names in ascending alphabetical order.
Sorted(names) ==
    LET keep(c) == c \in names
    IN  SelectSeq(Alphabetical, keep)

\* The orders in which list(a_set) may enumerate a Python set.
RECURSIVE ListOrders(_)
ListOrders(S) ==
    IF S = {} THEN {<<>>}
    ELSE UNION {{<<x>> \o rest : rest \in ListOrders(S \ {x})} : x \in S}

\* <<o, i>> for o in outer, for i in inner: a nested loop, outer loop first.
Nested(outer, inner) ==
    [k \in 1 .. (Len(outer) * Len(inner)) |->
        <<outer[((k - 1) \div Len(inner)) + 1], inner[((k - 1) % Len(inner)) + 1]>>]

Frame(cols, data) == [columns |-> cols, data |-> data]

-----------------------------------------------------------------------------
(* pandas *)

isna(v) == v = NaN
notna(v) == v # NaN

\* Elementwise != and == of two frames' cells: a missing operand never equals.
ne(a, b) == isna(a) \/ isna(b) \/ a # b
eq(a, b) == notna(a) /\ notna(b) /\ a = b

\* df.loc[idx, col]
loc(df, idx, col) == df.data[idx][col]

\* Index.difference(other): the labels of a not in b, sorted.
difference(a, b) == Sorted(Range(a) \ Range(b))

\* Index.intersection(other): the labels of a also in b, in a's order.
intersection(a, b) ==
    LET keep(c) == c \in Range(b)
    IN  SelectSeq(a, keep)

\* df.reindex(columns=cols, fill_value=pd.NA)
reindex(df, cols) ==
    Frame(cols, [r \in Rows |-> [c \in Range(cols) |->
        IF c \in Range(df.columns) THEN df.data[r][c] ELSE NaN]])

-----------------------------------------------------------------------------
(* gspread *)

Letters == <<"A", "B", "C", "D", "E", "F", "G", "H", "I", "J", "K", "L", "M",
             "N", "O", "P", "Q", "R", "S", "T", "U", "V", "W", "X", "Y", "Z">>

\* gspread.utils.rowcol_to_a1(1, col)[:-1]: the letters of 1-based column col.
RECURSIVE ColLetter(_)
ColLetter(col) ==
    IF col = 0 THEN ""
    ELSE LET mod0 == col % 26
             mod == IF mod0 = 0 THEN 26 ELSE mod0
             div == IF mod0 = 0 THEN (col \div 26) - 1 ELSE col \div 26
         IN  ColLetter(div) \o Letters[mod]

\* {"range": f"{col_letter}{sheet_row}", "values": [[value]]}; the range is
\* kept as the pair the f-string joins.
Descriptor(col_letter, sheet_row, value) ==
    [range |-> <<col_letter, sheet_row>>, values |-> <<<<value>>>>]

\* The A1 string of a descriptor's range.
A1(d) == d.range[1] \o ToString(d.range[2])

-----------------------------------------------------------------------------
(* _UpdateContext._calculate_updates, src/src/iter8/data_sheet.py *)

\* Mutant: the header row is forgotten.
index_to_sheet_row_no_header(idx) == idx + 1

\* Map DataFrame index to sheet row number (+2 for 1-based index and header)
index_to_sheet_row(idx) == idx + 2

new_columns(orig, copy) == Range(copy.columns) \ Range(orig.columns)
existing_columns(orig, copy) == Range(orig.columns) \cap Range(copy.columns)

\* Mutant: the 0-based index is handed to rowcol_to_a1 as it is.
col_letter_map_new_zero_based(orig, copy, col_name) ==
    LET sorted_new_columns == Sorted(Range(copy.columns) \ Range(orig.columns))
        i == IndexOf(sorted_new_columns, col_name) - 1
    IN  ColLetter(Cardinality(Range(orig.columns)) + i)

\* Mutant: the new columns keep the order of the working copy.
col_letter_map_new_insertion_order(orig, copy, col_name) ==
    LET is_new(c) == c \in new_columns(orig, copy)
        new_in_copy_order == SelectSeq(copy.columns, is_new)
        existing_col_count == Cardinality(Range(orig.columns))
        i == IndexOf(new_in_copy_order, col_name) - 1
    IN  ColLetter(existing_col_count + i + 1)

\* col_letter_map_new[col_name]: the i-th sorted new column goes to the
\* 0-based sheet column existing_col_count + i.
col_letter_map_new(orig, copy, col_name) ==
    LET sorted_new_columns == Sorted(new_columns(orig, copy))
        existing_col_count == Cardinality(Range(orig.columns))
        i == IndexOf(sorted_new_columns, col_name) - 1
        sheet_col_idx == existing_col_count + i
    IN  ColLetter(sheet_col_idx + 1)

\* 2. Add header updates for new columns
header_updates8(orig, copy) ==
    LET header(col_name) ==
            Descriptor(col_letter_map_new(orig, copy, col_name), 1, col_name)
        sorted_new_columns == Sorted(new_columns(orig, copy))
    IN  [k \in 1 .. Len(sorted_new_columns) |-> header(sorted_new_columns[k])]

\* Mutant: every row of a new column is written.
new_cell_wanted_always(copy, idx, col_name) == TRUE

\* Only add updates for non-NaN values in the copy
new_cell_wanted(copy, idx, col_name) == notna(loc(copy, idx, col_name))

\* 3. Add updates for explicitly set values in new columns
new_cell_updates8(orig, copy) ==
    LET wanted(p) == new_cell_wanted(copy, p[2], p[1])
        cell(p) == Descriptor(col_letter_map_new(orig, copy, p[1]),
                              index_to_sheet_row(p[2]), loc(copy, p[2], p[1]))
        set_cells == SelectSeq(Nested(Sorted(new_columns(orig, copy)), RowSeq), wanted)
    IN  [k \in 1 .. Len(set_cells) |-> cell(set_cells[k])]

\* Mutant: the mask is the bare != of line 121, without the both-NaN clause.
changed_mask_ne_only(orig, copy, idx, col_name) ==
    ne(loc(orig, idx, col_name), loc(copy, idx, col_name))

\* Mutant: NaNs in the copy are ignored.
changed_mask_ignoring_nan(orig, copy, idx, col_name) ==
    /\ ne(loc(orig, idx, col_name), loc(copy, idx, col_name))
    /\ notna(loc(copy, idx, col_name))

\* changed_mask.loc[idx, col_name]: the values differ and are not both NaN.
changed_mask(orig, copy, idx, col_name) ==
    /\ ne(loc(orig, idx, col_name), loc(copy, idx, col_name))
    /\ ~(isna(loc(orig, idx, col_name)) /\ isna(loc(copy, idx, col_name)))

\* Mutant: the value goes out as it is.
update_value_unconverted(new_value) == new_value

\* Convert NaN to empty string for gspread compatibility in existing columns
update_value(new_value) == IF isna(new_value) THEN "" ELSE new_value

\* col_letter_map_existing[col_name]
col_letter_map_existing(orig, col_name) ==
    LET col_idx == IndexOf(orig.columns, col_name) - 1
    IN  ColLetter(col_idx + 1)

\* 4. Handle updates for existing columns; existing_list is list(existing_columns).
existing_cell_updates8(orig, copy, existing_list) ==
    LET changed(p) == changed_mask(orig, copy, p[1], p[2])
        cell(p) == Descriptor(col_letter_map_existing(orig, p[2]),
                              index_to_sheet_row(p[1]),
                              update_value(loc(copy, p[1], p[2])))
        changed_cells == SelectSeq(Nested(RowSeq, existing_list), changed)
    IN  [k \in 1 .. Len(changed_cells) |-> cell(changed_cells[k])]

calculate_updates8(orig, copy, existing_list) ==
    header_updates8(orig, copy)
        \o new_cell_updates8(orig, copy)
        \o existing_cell_updates8(orig, copy, existing_list)

-----------------------------------------------------------------------------
(* _UpdateContext._calculate_updates, src/src/aiter8/data_sheet.py *)

\* final_col_to_idx[col_name]: the 0-based position in the copy's columns.
final_col_to_idx(copy, col_name) == IndexOf(copy.columns, col_name) - 1

new_columns_list(orig, copy) ==
    LET isnew(c) == c \notin Range(orig.columns)
    IN  SelectSeq(copy.columns, isnew)

\* Step 2: Prepare Header Updates (Preserving Order)
header_updatesA(orig, copy) ==
    LET header(col_name) ==
            Descriptor(ColLetter(final_col_to_idx(copy, col_name) + 1), 1, col_name)
        new_list == new_columns_list(orig, copy)
    IN  [k \in 1 .. Len(new_list) |-> header(new_list[k])]

\* DataFrame.compare's mask over the two reindexed frames.
compare_mask(orig, copy, idx, col_name) ==
    LET a == loc(reindex(orig, copy.columns), idx, col_name)
        b == loc(reindex(copy, copy.columns), idx, col_name)
    IN  ~(eq(a, b) \/ (isna(a) /\ isna(b)))

\* diff.loc[idx, (col_name, 'self')] and diff.loc[idx, (col_name, 'other')]:
\* compare() blanks the cells outside its mask.
diff_self(orig, copy, idx, col_name) ==
    IF compare_mask(orig, copy, idx, col_name)
    THEN loc(reindex(orig, copy.columns), idx, col_name) ELSE NaN
diff_other(orig, copy, idx, col_name) ==
    IF compare_mask(orig, copy, idx, col_name)
    THEN loc(reindex(copy, copy.columns), idx, col_name) ELSE NaN

\* diff.index and diff.columns.get_level_values(0).unique(): keep_shape=False
\* keeps the rows and the columns that hold a difference.
diff_index(orig, copy) ==
    LET keep(idx) == \E c \in Range(copy.columns) : compare_mask(orig, copy, idx, c)
    IN  SelectSeq(RowSeq, keep)
diff_cols(orig, copy) ==
    LET keep(c) == \E idx \in Rows : compare_mask(orig, copy, idx, c)
    IN  SelectSeq(copy.columns, keep)

\* Skip if both values are NaN
diff_cell_wanted(orig, copy, idx, col_name) ==
    ~(isna(diff_self(orig, copy, idx, col_name)) /\ isna(diff_other(orig, copy, idx, col_name)))

\* Format value for sheet (NaN/NA -> "")
update_valueA(new_value) == IF isna(new_value) THEN "" ELSE new_value

\* Step 4: Calculate Cell Value Updates
cell_updatesA(orig, copy) ==
    LET wanted(p) == diff_cell_wanted(orig, copy, p[1], p[2])
        cell(p) == Descriptor(ColLetter(final_col_to_idx(copy, p[2]) + 1),
                              index_to_sheet_row(p[1]),
                              update_valueA(diff_other(orig, copy, p[1], p[2])))
        diff_cells == SelectSeq(Nested(diff_index(orig, copy), diff_cols(orig, copy)), wanted)
    IN  [k \in 1 .. Len(diff_cells) |-> cell(diff_cells[k])]

calculate_updatesA(orig, copy) ==
    header_updatesA(orig, copy) \o cell_updatesA(orig, copy)

-----------------------------------------------------------------------------
(* The functions that run outside the update scope *)

\* No call of from_sheet, or of llm_json, is under way.
LoaderOff == [pc |-> "off"]
LlmOff == [pc |-> "off"]

\* No second update scope is open, and no run of sample3.py is under way.
Ctx2Off == [pc |-> "off"]
RunOff == [pc |-> "off"]

-----------------------------------------------------------------------------
(* The worksheet behind the snapshot *)

\* The cells of the worksheet the model looks at: the header row and the
\* data rows, as many columns as there are column names.
Grid == {<<Letters[p], row>> : p \in 1 .. Len(Alphabetical), row \in 1 .. NRows + 1}

\* What the sheet shows for a cell of the snapshot: an empty cell for a
\* missing value.
sheet_value(v) == IF isna(v) THEN "" ELSE v

\* The worksheet a snapshot was loaded from: get_all_records takes row 1 as
\* the keys and the rows below as the records.
sheet_of(df) ==
    [a \in Grid |->
        IF \E p \in 1 .. Len(df.columns) : Letters[p] = a[1]
        THEN LET p == CHOOSE q \in 1 .. Len(df.columns) : Letters[q] = a[1]
             IN  IF a[2] = 1 THEN df.columns[p]
                 ELSE sheet_value(df.data[a[2] - 2][df.columns[p]])
        ELSE ""]

\* worksheet.batch_update(ups, value_input_option='USER_ENTERED') on the
\* sheet: each descriptor puts its value at its range, a later one over an
\* earlier one.
batch_update(cells, ups) ==
    [a \in Grid |->
        LET hits == {i \in 1 .. Len(ups) : ups[i].range = a}
        IN  IF hits = {} THEN cells[a]
            ELSE ups[CHOOSE i \in hits : \A j \in hits : j <= i].values[1][1]]

-----------------------------------------------------------------------------
(* The fold-back of __exit__ *)

\* Mutant: self.original_df.update(self.copy_df), which skips the nulls of
\* the copy.
assign_columns_update(orig, copy, cols) ==
    Frame(orig.columns, [r \in Rows |-> [c \in Range(orig.columns) |->
        IF c \in Range(cols) /\ notna(copy.data[r][c])
        THEN copy.data[r][c] ELSE orig.data[r][c]]])

\* self.original_df[cols] = self.copy_df[cols], for the columns cols of both.
assign_columns(orig, copy, cols) ==
    Frame(orig.columns, [r \in Rows |-> [c \in Range(orig.columns) |->
        IF c \in Range(cols) THEN copy.data[r][c] ELSE orig.data[r][c]]])

\* for col in new_cols: self.original_df[col] = self.copy_df[col]
add_columns(orig, copy, new_cols) ==
    Frame(orig.columns \o new_cols, [r \in Rows |-> [c \in Range(orig.columns \o new_cols) |->
        IF c \in Range(new_cols) THEN copy.data[r][c] ELSE orig.data[r][c]]])

\* src/src/iter8/data_sheet.py: add new columns first, then update the
\* existing ones.
fold_back8(orig, copy) ==
    LET new_cols == difference(copy.columns, orig.columns)
        added == add_columns(orig, copy, new_cols)
        existing_cols == intersection(added.columns, copy.columns)
    IN  assign_columns(added, copy, existing_cols)

\* Mutant: the columns stay in the order the fold-back left them.
reorder_kept(df, final_col_order) == df

\* self.original_df[final_col_order], put in place of the original's data.
reorder(df, final_col_order) ==
    IF df.columns # final_col_order
    THEN Frame(final_col_order,
               [r \in Rows |-> [c \in Range(final_col_order) |-> df.data[r][c]]])
    ELSE df

\* src/src/aiter8/data_sheet.py: update existing columns, add the new ones,
\* then take the copy's column order.
fold_backA(orig, copy) ==
    LET new_cols == difference(copy.columns, orig.columns)
        cols_to_update == intersection(copy.columns, orig.columns)
        updated == assign_columns(orig, copy, cols_to_update)
        added == add_columns(updated, copy, new_cols)
    IN  reorder(added, copy.columns)

-----------------------------------------------------------------------------
(* The program *)

\* DataSheet.from_sheet: the snapshot of the loaded worksheet, the records of
\* tests/conftest.py cut to two columns: every id is present, col_b is empty
\* in the first record, missing in the second and set in the others.
loaded_cell(idx, col_name) ==
    IF col_name = "id" THEN "x"
    ELSE IF idx = 0 THEN "" ELSE IF idx = 1 THEN NaN ELSE "x"

Snapshots ==
    {Frame(LoadedColumns, [r \in Rows |-> [c \in Range(LoadedColumns) |-> loaded_cell(r, c)]])}

InitSheet ==
    /\ variant \in {"iter8", "aiter8"}
    /\ original_df \in Snapshots
    /\ copy_df = original_df
    /\ pc = "idle"
    /\ before = original_df
    /\ updates = <<>>
    /\ calls = <<>>
    /\ printed = <<>>
    /\ outcome = "none"
    /\ raised = FALSE
    /\ nSteps = 0
    /\ aliased = FALSE
    /\ remote = [cells |-> sheet_of(original_df), in_full |-> TRUE]

\* Mutant: __enter__ hands out the snapshot itself.
copy_shares_data_yes == TRUE

\* self.copy_df = self.original_df.copy(): DataFrame.copy is deep unless told
\* otherwise, so the working copy shares no data or index with S.
copy_shares_data == FALSE

\* What S holds after a statement has changed the working copy to new_copy.
seen_in_original(shared, orig, new_copy) == IF shared THEN new_copy ELSE orig

\* with datasheet.start_update() as change: start_update, __init__, __enter__.
Enter ==
    /\ pc = "idle"
    /\ nSteps < MaxSteps
    /\ pc' = "scope"
    /\ copy_df' = original_df
    /\ before' = original_df
    /\ updates' = <<>>
    /\ calls' = <<>>
    /\ printed' = <<>>
    /\ outcome' = "none"
    /\ raised' = FALSE
    /\ nSteps' = nSteps + 1
    /\ aliased' = copy_shares_data
    /\ UNCHANGED <<variant, original_df, ld, llm, remote, ctx2, run>>

\* change.loc[idx, col_name] = value; a column the copy lacks is appended,
\* missing in every other row.
set_cell(df, idx, col_name, value) ==
    LET cols == IF col_name \in Range(df.columns) THEN df.columns
                ELSE Append(df.columns, col_name)
    IN  Frame(cols, [r \in Rows |-> [c \in Range(cols) |->
            IF r = idx /\ c = col_name THEN value
            ELSE IF c \in Range(df.columns) THEN df.data[r][c] ELSE NaN]])

\* change.insert(pos, col_name, pd.NA); change[col_name] = pd.NA is the
\* insert at the end.
insert_column(df, pos, col_name) ==
    LET cols == SubSeq(df.columns, 1, pos) \o <<col_name>>
                    \o SubSeq(df.columns, pos + 1, Len(df.columns))
    IN  reindex(df, cols)

\* change.drop(columns=[col_name], inplace=True)
drop_column(df, col_name) ==
    LET keep(c) == c # col_name
    IN  reindex(df, SelectSeq(df.columns, keep))

SetCell(idx, col_name, value) ==
    /\ pc = "scope"
    /\ nSteps < MaxSteps
    /\ copy_df' = set_cell(copy_df, idx, col_name, value)
    /\ original_df' = seen_in_original(aliased, original_df, copy_df')
    /\ nSteps' = nSteps + 1
    /\ UNCHANGED <<variant, pc, before, updates, calls, printed, outcome, raised,
                   aliased, ld, llm, remote, ctx2, run>>

InsertColumn(pos, col_name) ==
    /\ pc = "scope"
    /\ nSteps < MaxSteps
    /\ col_name \notin Range(copy_df.columns)
    /\ pos \in 0 .. Len(copy_df.columns)
    /\ copy_df' = insert_column(copy_df, pos, col_name)
    /\ original_df' = seen_in_original(aliased, original_df, copy_df')
    /\ nSteps' = nSteps + 1
    /\ UNCHANGED <<variant, pc, before, updates, calls, printed, outcome, raised,
                   aliased, ld, llm, remote, ctx2, run>>

DropColumn(col_name) ==
    /\ pc = "scope"
    /\ nSteps < MaxSteps
    /\ col_name \in Range(copy_df.columns)
    /\ copy_df' = drop_column(copy_df, col_name)
    /\ original_df' = seen_in_original(aliased, original_df, copy_df')
    /\ nSteps' = nSteps + 1
    /\ UNCHANGED <<variant, pc, before, updates, calls, printed, outcome, raised,
                   aliased, ld, llm, remote, ctx2, run>>

\* list(existing_columns): any order of the set; the aiter8 variant builds no
\* such set.
existing_lists(v, orig, copy) ==
    IF v = "iter8" THEN ListOrders(existing_columns(orig, copy)) ELSE {<<>>}

\* updates = self._calculate_updates()
calculate_updates(v, orig, copy, existing_list) ==
    IF v = "iter8" THEN calculate_updates8(orig, copy, existing_list)
    ELSE calculate_updatesA(orig, copy)

\* What _calculate_updates and __exit__ print on the way to the write.
printed_before_write(v) ==
    IF v = "aiter8" THEN <<"Differences found:">> ELSE <<>>
printed_after_write(v) ==
    IF v = "aiter8" THEN <<"Updated cells in Google Sheet.", "updates=">>
    ELSE <<"Updated cells in Google Sheet.">>

\* Mutant: a successful write leaves the snapshot as it was.
fold_back_unchanged(v, orig, copy) == orig

\* The fold-back of the variant running.
fold_back(v, orig, copy) ==
    IF v = "iter8" THEN fold_back8(orig, copy) ELSE fold_backA(orig, copy)

\* Mutant: the write is made whatever the list holds.
has_updates_always(ups) == TRUE

\* if updates: whether __exit__ goes to the remote sheet at all.
has_updates(ups) == ups # <<>>

\* Mutant: batch_update with gspread's default input mode.
batch_update_call_raw(ups) == [updates |-> ups, value_input_option |-> "RAW"]

\* self.worksheet.batch_update(updates, value_input_option='USER_ENTERED')
batch_update_call(ups) == [updates |-> ups, value_input_option |-> "USER_ENTERED"]

\* Mutant: the fold-back is done before the write.
after_failed_write_folded(orig, copy) == fold_back8(orig, copy)

\* What the except clause of __exit__ leaves of the snapshot: batch_update
\* raised before the fold-back was reached.
after_failed_write(orig, copy) == orig

\* except Exception as e: print(f"Error during sheet update: {e}")
except_prints == <<"Error during sheet update">>

\* Mutant: the except clause re-raises.
except_reraises_yes == TRUE

\* Whether the except clause lets the error leave __exit__: it neither
\* re-raises nor returns False.
except_reraises == FALSE

\* The sheet after the write: the batch is on it when batch_update returned;
\* when it raised, the request was turned down, or it was carried out and
\* the answer lost (reached).
after_write(cells, ups, write_ok, reached) ==
    IF write_ok \/ reached THEN batch_update(cells, ups) ELSE cells

\* __exit__(None, None, None): the body ended normally.  write_ok is whether
\* batch_update returns or raises; existing_list is list(existing_columns);
\* reached is whether the batch of a failed write came to the sheet.
ExitNormal(write_ok, existing_list, reached) ==
    /\ pc = "scope"
    /\ write_ok => reached
    /\ LET ups == calculate_updates(variant, original_df, copy_df, existing_list)
       IN  /\ updates' = ups
           /\ IF has_updates(ups)
              THEN /\ calls' = <<batch_update_call(ups)>>
                   /\ remote' = [cells |-> after_write(remote.cells, ups, write_ok, reached),
                                 in_full |-> remote.in_full /\ write_ok]
                   /\ IF write_ok
                      THEN /\ original_df' = fold_back(variant, original_df, copy_df)
                           /\ printed' = printed_before_write(variant)
                                  \o printed_after_write(variant)
                                  \o <<"Updated original DataFrame in memory.">>
                           /\ outcome' = "updated"
                      ELSE /\ original_df' = after_failed_write(original_df, copy_df)
                           /\ printed' = printed_before_write(variant) \o except_prints
                           /\ outcome' = "write_failed"
              ELSE /\ calls' = <<>>
                   /\ remote' = remote
                   /\ original_df' = original_df
                   /\ printed' = printed_before_write(variant) \o <<"No changes detected.">>
                   /\ outcome' = "no_changes"
           /\ raised' = (has_updates(ups) /\ ~write_ok /\ except_reraises)
    /\ pc' = "idle"
    /\ UNCHANGED <<variant, copy_df, before, nSteps, aliased, ld, llm, ctx2, run>>

\* Mutant: __exit__ returns True whatever happened.
exit_suppresses_yes == TRUE

\* What __exit__ returns when the body raised: False, the exception goes on.
exit_suppresses == FALSE

\* __exit__(exc_type, exc_val, exc_tb): the body raised.
ExitException ==
    /\ pc = "scope"
    /\ updates' = <<>>
    /\ calls' = <<>>
    /\ printed' = <<"Exception occurred during context. No updates applied.">>
    /\ outcome' = "body_exception"
    /\ raised' = ~exit_suppresses
    /\ pc' = "idle"
    /\ UNCHANGED <<variant, original_df, copy_df, before, nSteps, aliased, ld, llm,
                   remote, ctx2, run>>

Next ==
    \/ Enter
    \/ \E idx \in Rows, col_name \in ColumnNames, value \in Cells :
            SetCell(idx, col_name, value)
    \/ \E pos \in 0 .. Len(Alphabetical), col_name \in ColumnNames :
            InsertColumn(pos, col_name)
    \/ \E col_name \in ColumnNames : DropColumn(col_name)
    \/ \E write_ok \in BOOLEAN,
          existing_list \in existing_lists(variant, original_df, copy_df),
          reached \in BOOLEAN :
            ExitNormal(write_ok, existing_list, reached)
    \/ ExitException

Init == InitSheet /\ ld = LoaderOff /\ llm = LlmOff /\ ctx2 = Ctx2Off /\ run = RunOff

Spec == Init /\ [][Next]_vars

-----------------------------------------------------------------------------
(* Two update scopes open on one DataSheet *)

\* datasheet.start_update() returns a new _UpdateContext on every call, each
\* with the DataSheet as its original_df and a copy of its own.  ctx2 is the
\* second one; it keeps what its __exit__ found in S (at_exit) and left in
\* S (folded).
InitTwo ==
    /\ InitSheet
    /\ ld = LoaderOff
    /\ llm = LlmOff
    /\ ctx2 = [pc |-> "idle", copy_df |-> original_df, before |-> original_df]
    /\ run = RunOff

\* with datasheet.start_update() as change2:
Enter2 ==
    /\ ctx2.pc = "idle"
    /\ nSteps < MaxSteps
    /\ ctx2' = [pc |-> "scope", copy_df |-> original_df, before |-> original_df]
    /\ nSteps' = nSteps + 1
    /\ UNCHANGED <<variant, original_df, copy_df, pc, before, updates, calls,
                   printed, outcome, raised, aliased, ld, llm, remote, run>>

\* change2.loc[idx, col_name] = value
SetCell2(idx, col_name, value) ==
    /\ ctx2.pc = "scope"
    /\ nSteps < MaxSteps
    /\ ctx2' = [ctx2 EXCEPT !.copy_df = set_cell(ctx2.copy_df, idx, col_name, value)]
    /\ nSteps' = nSteps + 1
    /\ UNCHANGED <<variant, original_df, copy_df, pc, before, updates, calls,
                   printed, outcome, raised, aliased, ld, llm, remote, run>>

\* change2's __exit__(None, None, None): the same code on the second
\* context's copy and on S as it is by now.
ExitNormal2(write_ok, existing_list, reached) ==
    /\ ctx2.pc = "scope"
    /\ write_ok => reached
    /\ LET ups == calculate_updates(variant, original_df, ctx2.copy_df, existing_list)
           folded == IF has_updates(ups) /\ write_ok
                     THEN fold_back(variant, original_df, ctx2.copy_df)
                     ELSE original_df
       IN  /\ original_df' = folded
           /\ remote' = IF has_updates(ups)
                        THEN [cells |-> after_write(remote.cells, ups, write_ok, reached),
                              in_full |-> remote.in_full /\ write_ok]
                        ELSE remote
           /\ ctx2' = [pc |-> "exited", copy_df |-> ctx2.copy_df, before |-> ctx2.before,
                       at_exit |-> original_df, updates |-> ups, folded |-> folded,
                       outcome |-> IF ~has_updates(ups) THEN "no_changes"
                                   ELSE IF write_ok THEN "updated" ELSE "write_failed"]
    /\ UNCHANGED <<variant, copy_df, pc, before, updates, calls, printed, outcome,
                   raised, nSteps, aliased, ld, llm, run>>

NextTwo ==
    \/ Enter
    \/ \E idx \in Rows, col_name \in ColumnNames, value \in Cells :
            SetCell(idx, col_name, value)
    \/ \E write_ok \in BOOLEAN,
          existing_list \in existing_lists(variant, original_df, copy_df),
          reached \in BOOLEAN :
            ExitNormal(write_ok, existing_list, reached)
    \/ Enter2
    \/ \E idx \in Rows, col_name \in ColumnNames, value \in Cells :
            SetCell2(idx, col_name, value)
    \/ \E write_ok \in BOOLEAN,
          existing_list \in existing_lists(variant, original_df, ctx2.copy_df),
          reached \in BOOLEAN :
            ExitNormal2(write_ok, existing_list, reached)

SpecTwo == InitTwo /\ [][NextTwo]_vars

-----------------------------------------------------------------------------
(* DataSheet.from_sheet *)

\* A cell of worksheet.get_all_records(): gspread hands out strings and,
\* where a cell reads as a number, numbers.  A cell is held as its Python
\* type and its string form str(value), a sequence of characters.
Str(chars) == [type |-> "str", chars |-> chars]
Num(chars) == [type |-> "int", chars |-> chars]
Bool(b) ==
    [type |-> "bool",
     chars |-> IF b THEN <<"T", "r", "u", "e">> ELSE <<"F", "a", "l", "s", "e">>]

LoaderCells ==
    {Str(<<"T", "R", "U", "E">>), Str(<<"t", "r", "u", "e">>),
     Str(<<"F", "a", "l", "s", "e">>), Str(<<"T", "R", "U">>), Str(<<>>),
     Num(<<"1">>)}
LoaderColumns == <<"flag", "qty">>
LoaderRecords == [Rows -> [Range(LoaderColumns) -> LoaderCells]]

\* str.upper() on the letters that occur: each lower-case letter with its
\* upper-case one; every other character stays.
CasePairs ==
    {<<"a", "A">>, <<"e", "E">>, <<"f", "F">>, <<"l", "L">>, <<"r", "R">>,
     <<"s", "S">>, <<"t", "T">>, <<"u", "U">>}
upper_char(ch) ==
    IF \E p \in CasePairs : p[1] = ch
    THEN (CHOOSE p \in CasePairs : p[1] = ch)[2]
    ELSE ch
str_upper(chars) == [i \in 1 .. Len(chars) |-> upper_char(chars[i])]

\* df[col].astype(str): every cell as its string form.
astype_str(cell) == cell.chars

\* df[col].dtype == 'object': pandas infers object for a column that holds a
\* string, and int64 for one that holds integers only.
dtype_is_object(records, col) == \E r \in Rows : records[r][col].type # "int"

\* true_mask and false_mask of a column, row by row.
true_mask(records, col, r) ==
    str_upper(astype_str(records[r][col])) = <<"T", "R", "U", "E">>
false_mask(records, col, r) ==
    str_upper(astype_str(records[r][col])) = <<"F", "A", "L", "S", "E">>

\* src/src/aiter8/data_sheet.py: df = cls(records), then the object columns
\* with a TRUE or a FALSE in them get True and False under the two masks.
from_sheetA(records) ==
    [r \in Rows |-> [c \in Range(LoaderColumns) |->
        IF /\ dtype_is_object(records, c)
           /\ \E r2 \in Rows : true_mask(records, c, r2) \/ false_mask(records, c, r2)
        THEN IF true_mask(records, c, r) THEN Bool(TRUE)
             ELSE IF false_mask(records, c, r) THEN Bool(FALSE)
             ELSE records[r][c]
        ELSE records[r][c]]]

\* src/src/iter8/data_sheet.py: df = cls(records) and nothing more.
from_sheet8(records) ==
    [r \in Rows |-> [c \in Range(LoaderColumns) |-> records[r][c]]]

from_sheet(v, records) ==
    IF v = "iter8" THEN from_sheet8(records) ELSE from_sheetA(records)

\* A worksheet whose records are about to be loaded.
InitLoader ==
    /\ InitSheet
    /\ ld \in {[pc |-> "call", records |-> records] : records \in LoaderRecords}
    /\ llm = LlmOff
    /\ ctx2 = Ctx2Off
    /\ run = RunOff

\* DataSheet.from_sheet(spreadsheet_id, worksheet_name)
FromSheet ==
    /\ ld.pc = "call"
    /\ ld' = [pc |-> "return", records |-> ld.records,
              df |-> from_sheet(variant, ld.records)]
    /\ UNCHANGED <<variant, original_df, copy_df, pc, before, updates, calls,
                   printed, outcome, raised, nSteps, aliased, llm, remote, ctx2, run>>

NextLoader == FromSheet

SpecLoader == InitLoader /\ [][NextLoader]_vars

-----------------------------------------------------------------------------
(* llm_json of src/src/aiter8/llm.py *)

\* The response text as a sequence of JSON tokens: braces, comma, and
\* "key:value" members.  The call asks for response_format json_object, so
\* the text is a JSON object, or a piece of one where max_tokens cut it or
\* the model went astray.
PairTokens == {"a:1", "a:2", "b:1"}
JsonTokens == {"{", "}", ","} \cup PairTokens
key_of(token) == IF token = "b:1" THEN "b" ELSE "a"
value_of(token) == IF token = "a:2" THEN "2" ELSE "1"
Contents == UNION {[1 .. n -> JsonTokens] : n \in 0 .. MaxLen}

\* What client.chat.completions.create and response.choices[0].message.content
\* can come to: the call raises, the response has no choice, the message has
\* no content, or there is a text.
ApiAnswers ==
    {[kind |-> k, content |-> <<>>] : k \in {"raises", "no_choices", "no_content"}}
        \cup {[kind |-> "content", content |-> c] : c \in Contents}

\* Whether json.loads accepts the text: an opening brace, members separated
\* by commas, a closing brace.
json_decodes(content) ==
    /\ Len(content) >= 2
    /\ content[1] = "{"
    /\ content[Len(content)] = "}"
    /\ LET members == SubSeq(content, 2, Len(content) - 1)
       IN  \/ members = <<>>
           \/ /\ Len(members) % 2 = 1
              /\ \A i \in 1 .. Len(members) :
                    IF i % 2 = 1 THEN members[i] \in PairTokens ELSE members[i] = ","

\* json.loads(json_str) on a text it accepts: a dict; of two members with one
\* key the later one stays.
json_loads(content) ==
    LET at == {i \in 1 .. Len(content) : content[i] \in PairTokens}
        keys == {key_of(content[i]) : i \in at}
        last(k) == CHOOSE i \in at :
                        /\ key_of(content[i]) = k
                        /\ \A j \in at : key_of(content[j]) = k => j <= i
    IN  [k \in keys |-> value_of(content[last(k)])]

\* The exception the try block ends with, "none" if it reaches its return.
raised_in_try(answer) ==
    IF answer.kind = "raises" THEN "APIError"
    ELSE IF answer.kind = "no_choices" THEN "IndexError"
    ELSE IF answer.kind = "no_content" THEN "TypeError"
    ELSE IF ~json_decodes(answer.content) THEN "JSONDecodeError"
    ELSE "none"

\* Mutant: only the errors of the API call are caught.
except_catches_api_only(exc) == exc = "APIError"

\* except Exception as e: each of these is an Exception.
except_catches(exc) == exc \in {"APIError", "IndexError", "TypeError", "JSONDecodeError"}

\* return {"error": str(e), "success": False}
error_response(exc) == [error |-> exc, success |-> FALSE]

\* A call of llm_json whose API answer is still to come.
InitLlm ==
    /\ InitSheet
    /\ ld = LoaderOff
    /\ llm \in {[pc |-> "call", answer |-> answer] : answer \in ApiAnswers}
    /\ ctx2 = Ctx2Off
    /\ run = RunOff

\* llm_json(prompt): the try block and its except clause.
LlmJson ==
    /\ llm.pc = "call"
    /\ LET exc == raised_in_try(llm.answer)
       IN  llm' = IF exc = "none"
                  THEN [pc |-> "returned", answer |-> llm.answer,
                        result |-> json_loads(llm.answer.content), printed |-> <<>>]
                  ELSE IF except_catches(exc)
                  THEN [pc |-> "returned", answer |-> llm.answer,
                        result |-> error_response(exc),
                        printed |-> <<"Error in llm_json: " \o exc>>]
                  ELSE [pc |-> "raised", answer |-> llm.answer,
                        result |-> exc, printed |-> <<>>]
    /\ UNCHANGED <<variant, original_df, copy_df, pc, before, updates, calls,
                   printed, outcome, raised, nSteps, aliased, ld, remote, ctx2, run>>

NextLlm == LlmJson

SpecLlm == InitLlm /\ [][NextLlm]_vars

-----------------------------------------------------------------------------
(* test_sample_2 of src/experiments/010-first/sample3.py *)

\* The rows of the sheet the run works on, 0 .. NRecords - 1.
NRecords == 3
RunRows == 0 .. NRecords - 1

\* max_workers of the ThreadPoolExecutor (10 in the source, scaled with the
\* number of rows).
PARALLEL_BATCH_SIZE == 2

\* The number of results that triggers an update (20 in the source, scaled
\* with the number of rows).
UPDATE_BATCH_SIZE == 2

\* The columns of the loaded sheet.
RunColumns == {"en", "thinking", "is_correct_transcription"}

\* A row as from_sheet of iter8 loads it and row.to_dict() copies it: a
\* fresh row has no thinking yet, an answered row has one and its verdict,
\* which the loader left as the text of the cell.
RowKinds == {"fresh", "answered"}
record_of(kind) ==
    [en |-> "word",
     thinking |-> IF kind = "answered" THEN "t" ELSE "",
     is_correct_transcription |->
         IF kind = "answered" THEN [type |-> "str", text |-> "TRUE"]
         ELSE [type |-> "str", text |-> ""]]

\* What the API can answer to a worker's call: an error, or a JSON object.
RunAnswers ==
    {[kind |-> "raises", content |-> <<>>],
     [kind |-> "content", content |-> <<"{", "a:1", "}">>]}

\* llm_json(prompt) as a function of the API's answer: the value it returns,
\* or the exception that leaves it.
llm_json(answer) ==
    LET exc == raised_in_try(answer)
    IN  IF exc = "none"
        THEN [raised |-> FALSE, value |-> json_loads(answer.content)]
        ELSE IF except_catches(exc)
        THEN [raised |-> FALSE, value |-> error_response(exc)]
        ELSE [raised |-> TRUE, value |-> exc]

\* record.get('thinking') and type(record.get('is_correct_transcription')) == bool
needs_no_call(record) ==
    /\ record.thinking # ""
    /\ record.is_correct_transcription.type = "bool"

\* process_record(record): the record itself or the answer of llm_json.
process_record(record, answer) ==
    IF needs_no_call(record)
    THEN [raised |-> FALSE, value |-> record]
    ELSE llm_json(answer)

\* Mutant: the worker looks the row up in the DataSheet.
worker_threads_on_snapshot_yes == {"worker"}

\* The threads that touch the DataSheet while process_record runs: it works
\* on the dict it was given.
worker_threads_on_snapshot == {}

\* change.loc[idx, result.keys()] = result.values() for each pair of the
\* batch: the cells the body of the scope assigns.
assignments(batch) ==
    UNION {{<<batch[n][1], k, batch[n][2][k]>> : k \in DOMAIN batch[n][2]}
                : n \in 1 .. Len(batch)}

\* The update scope of update_datasheet(datasheet, accumulated_results) on a
\* snapshot with the given columns and assigned cells: the headers and cells
\* its exit sends, and whether the write went through.
update_scope(columns, cells, batch, write_ok, final) ==
    [batch |-> batch,
     write_ok |-> write_ok,
     final |-> final,
     headers |-> {a[2] : a \in assignments(batch)} \ columns,
     cells |-> assignments(batch) \ cells]

\* Mutant: the accumulator is kept after a failed write.
reset_after_kept_on_failure(accumulated_results, write_ok) ==
    IF write_ok THEN <<>> ELSE accumulated_results

\* accumulated_results = [] after update_datasheet returns: __exit__ has
\* swallowed a failed write, so the line is reached either way.
reset_after(accumulated_results, write_ok) == <<>>

\* Mutant: the update waits for one result more.
batch_full_late(n) == n > UPDATE_BATCH_SIZE

\* if len(accumulated_results) >= UPDATE_BATCH_SIZE
batch_full(n) == n >= UPDATE_BATCH_SIZE

\* The cells of the loaded rows.
loaded_cells(kinds) ==
    UNION {{<<idx, k, record_of(kinds[idx])[k]>> : k \in RunColumns} : idx \in RunRows}

\* Mutant: the futures are collected as they complete.
next_future_as_completed(i, finished) ==
    IF i < Len(finished) THEN {finished[i + 1]} ELSE {}

\* for idx, future in futures: future.result() -- the next future is the
\* next one submitted, and the loop waits until it is finished.
next_future(i, finished) ==
    IF i \in Range(finished) THEN {i} ELSE {}

\* test_sample_2 after from_sheet: nothing submitted yet.
InitBatch ==
    /\ InitSheet
    /\ variant = "iter8"
    /\ ld = LoaderOff
    /\ llm = LlmOff
    /\ ctx2 = Ctx2Off
    /\ \E kinds \in [RunRows -> RowKinds] :
          run = [pc |-> "submit",
                 rows |-> kinds,
                 submitted |-> 0,
                 finished |-> <<>>,
                 results |-> <<>>,
                 collected |-> <<>>,
                 accumulated_results |-> <<>>,
                 processed_count |-> 0,
                 scopes |-> <<>>,
                 columns |-> RunColumns,
                 cells |-> loaded_cells(kinds),
                 log |-> <<>>,
                 users |-> {}]

\* One turn of the submitting loop: row.to_dict() and executor.submit.
Submit ==
    /\ run.pc = "submit"
    /\ run' = [run EXCEPT !.submitted = @ + 1,
                          !.users = @ \cup {"main"},
                          !.pc = IF run.submitted + 1 = NRecords
                                 THEN "collect" ELSE "submit"]
    /\ UNCHANGED <<variant, original_df, copy_df, pc, before, updates, calls,
                   printed, outcome, raised, nSteps, aliased, ld, llm, remote, ctx2>>

\* A worker runs process_record on the dict of row idx to its end.  The pool
\* takes the submitted rows in order, max_workers at a time.  fault stands
\* for an exception that leaves process_record.
WorkerFinish(idx, answer, fault) ==
    /\ run.pc # "off"
    /\ idx < run.submitted
    /\ idx \notin Range(run.finished)
    /\ Cardinality({j \in 0 .. idx - 1 : j \notin Range(run.finished)})
            < PARALLEL_BATCH_SIZE
    /\ LET result == IF fault THEN [raised |-> TRUE, value |-> "RuntimeError"]
                     ELSE process_record(record_of(run.rows[idx]), answer)
       IN  run' = [run EXCEPT !.finished = Append(@, idx),
                              !.results = Append(@, result),
                              !.users = @ \cup worker_threads_on_snapshot,
                              !.log = IF ~fault /\ ~needs_no_call(record_of(run.rows[idx]))
                                         /\ raised_in_try(answer) # "none"
                                      THEN Append(@, <<"Error in llm_json", -1>>)
                                      ELSE @]
    /\ UNCHANGED <<variant, original_df, copy_df, pc, before, updates, calls,
                   printed, outcome, raised, nSteps, aliased, ld, llm, remote, ctx2>>

\* The result of the future of row idx, once it is finished.
result_of(idx) == run.results[CHOOSE n \in 1 .. Len(run.finished) : run.finished[n] = idx]

\* One turn of the collecting loop up to the test of the batch size:
\* future.result() gives the result, which is appended, or raises, which is
\* logged with the row's index.
Collect ==
    /\ run.pc = "collect"
    /\ Len(run.collected) < NRecords
    /\ \E idx \in next_future(Len(run.collected), run.finished) :
          LET result == result_of(idx)
          IN  run' = IF result.raised
                     THEN [run EXCEPT !.collected = Append(@, idx),
                                      !.log = Append(@, <<"Error processing record at index", idx>>)]
                     ELSE [run EXCEPT !.collected = Append(@, idx),
                                      !.processed_count = @ + 1,
                                      !.accumulated_results = Append(@, <<idx, result.value>>),
                                      !.pc = IF batch_full(Len(run.accumulated_results) + 1)
                                             THEN "flush" ELSE "collect"]
    /\ UNCHANGED <<variant, original_df, copy_df, pc, before, updates, calls,
                   printed, outcome, raised, nSteps, aliased, ld, llm, remote, ctx2>>

\* update_datasheet(ds, accumulated_results) in the loop and the reset that
\* follows it.
Flush(write_ok) ==
    /\ run.pc = "flush"
    /\ LET scope == update_scope(run.columns, run.cells, run.accumulated_results,
                                 write_ok, FALSE)
       IN  run' = [run EXCEPT !.scopes = Append(@, scope),
                              !.columns = IF write_ok THEN @ \cup scope.headers ELSE @,
                              !.cells = IF write_ok THEN @ \cup scope.cells ELSE @,
                              !.users = @ \cup {"main"},
                              !.accumulated_results = reset_after(@, write_ok),
                              !.pc = "collect"]
    /\ UNCHANGED <<variant, original_df, copy_df, pc, before, updates, calls,
                   printed, outcome, raised, nSteps, aliased, ld, llm, remote, ctx2>>

\* After the loop: if accumulated_results: update_datasheet(ds, accumulated_results)
FinalFlush(write_ok) ==
    /\ run.pc = "collect"
    /\ Len(run.collected) = NRecords
    /\ IF run.accumulated_results # <<>>
       THEN LET scope == update_scope(run.columns, run.cells, run.accumulated_results,
                                      write_ok, TRUE)
            IN  run' = [run EXCEPT !.scopes = Append(@, scope),
                                   !.columns = IF write_ok THEN @ \cup scope.headers ELSE @,
                                   !.cells = IF write_ok THEN @ \cup scope.cells ELSE @,
                                   !.users = @ \cup {"main"},
                                   !.pc = "done"]
       ELSE run' = [run EXCEPT !.pc = "done"]
    /\ UNCHANGED <<variant, original_df, copy_df, pc, before, updates, calls,
                   printed, outcome, raised, nSteps, aliased, ld, llm, remote, ctx2>>

NextBatch ==
    \/ Submit
    \/ \E idx \in RunRows, answer \in RunAnswers, fault \in BOOLEAN :
            WorkerFinish(idx, answer, fault)
    \/ Collect
    \/ \E write_ok \in BOOLEAN : Flush(write_ok)
    \/ \E write_ok \in BOOLEAN : FinalFlush(write_ok)

SpecBatch == InitBatch /\ [][NextBatch]_vars

-----------------------------------------------------------------------------
(* Vocabulary of the properties *)

\* The with-statement has ended; its body did not raise.
ExitedNormally == pc = "idle" /\ outcome \in {"no_changes", "updated", "write_failed"}

\* The merged column order of an exit: where each column of the scope stands
\* on the sheet.  iter8: the columns of S, then the new ones alphabetically;
\* aiter8: the working copy's order.
MergedColumns ==
    IF variant = "iter8"
    THEN before.columns \o Sorted(Range(copy_df.columns) \ Range(before.columns))
    ELSE copy_df.columns

NewColumns == Range(copy_df.columns) \ Range(before.columns)
ExistingColumns == Range(copy_df.columns) \cap Range(before.columns)

HeaderAddress(c) == <<ColLetter(IndexOf(MergedColumns, c)), 1>>
CellAddress(r, c) == <<ColLetter(IndexOf(MergedColumns, c)), r + 2>>

\* The descriptors of the exit addressed at addr.
At(addr) == {i \in 1 .. Len(updates) : updates[i].range = addr}
CarriedBy(i) == updates[i].values[1][1]

\* S and the working copy hold different values at (r, c), not both null.
Differ(r, c) == before.data[r][c] # copy_df.data[r][c]

\* The working copy differs from S in the one cell (r, c) and nowhere else.
SingleCellMutation(r, c) ==
    /\ copy_df.columns = before.columns
    /\ c \in Range(before.columns)
    /\ \A r2 \in Rows, c2 \in Range(before.columns) :
            Differ(r2, c2) <=> (r2 = r /\ c2 = c)

\* S is, outside the cell (r, c), what it was when the scope was opened.
OthersUnchanged(r, c) ==
    /\ original_df.columns = before.columns
    /\ \A r2 \in Rows, c2 \in Range(before.columns) :
            (r2 # r \/ c2 # c) => original_df.data[r2][c2] = before.data[r2][c2]

-----------------------------------------------------------------------------
(* C1: no-op law.  A normal exit whose working copy shows no difference from *)
(* S (no new column, every cell equal or null in both) makes no batch_update *)
(* call and leaves S as it was.                                              *)

NoDifference ==
    /\ NewColumns = {}
    /\ \A r \in Rows, c \in ExistingColumns : ~Differ(r, c)

C1_NoOpLaw ==
    (ExitedNormally /\ NoDifference) => (calls = <<>> /\ original_df = before)

\* A scope that assigned to the working copy without changing it, and exited.
C1_Witness ==
    /\ ExitedNormally /\ NoDifference
    /\ nSteps >= 2
    /\ calls = <<>> /\ original_df = before

-----------------------------------------------------------------------------
(* C2: a single-cell mutation of an existing column (r, c, v), v different   *)
(* from S[r][c]: a normal exit emits exactly one descriptor, addressed at    *)
(* c's letter and sheet row r + 2 and carrying v, and after the exit         *)
(* S[r][c] = v while every other cell of S is unchanged.                     *)

\* As claimed: the descriptor carries v itself and S holds v after any
\* normal exit.
C2_AsClaimed ==
    \A r \in Rows, c \in ColumnNames :
        (ExitedNormally /\ SingleCellMutation(r, c)) =>
            /\ updates = <<Descriptor(ColLetter(IndexOf(before.columns, c)), r + 2,
                                      copy_df.data[r][c])>>
            /\ original_df.data[r][c] = copy_df.data[r][c]
            /\ OthersUnchanged(r, c)

\* As amended: the descriptor carries v, the empty string when v is null, and
\* S takes v when the batch write succeeded.
C2_SingleCell ==
    \A r \in Rows, c \in ColumnNames :
        (ExitedNormally /\ SingleCellMutation(r, c)) =>
            /\ updates = <<Descriptor(ColLetter(IndexOf(before.columns, c)), r + 2,
                                      IF copy_df.data[r][c] = NaN THEN ""
                                      ELSE copy_df.data[r][c])>>
            /\ outcome # "no_changes"
            /\ outcome = "updated" => original_df.data[r][c] = copy_df.data[r][c]
            /\ OthersUnchanged(r, c)

\* The second row's col_b changed from null to a value, written at B3 and
\* folded back.
C2_Witness ==
    /\ outcome = "updated" /\ pc = "idle"
    /\ SingleCellMutation(1, "col_b")
    /\ Len(updates) = 1 /\ A1(updates[1]) = "B3"
    /\ original_df.data[1]["col_b"] = "x"

-----------------------------------------------------------------------------
(* C3: if batch_update raises during a normal exit, S after the exit is S    *)
(* as it was before the scope was opened, however many descriptors there     *)
(* were.                                                                     *)

C3_WriteFailureKeepsS ==
    (pc = "idle" /\ outcome = "write_failed") => original_df = before

\* A failed write of several descriptors, one of them a new column's header.
C3_Witness ==
    /\ pc = "idle" /\ outcome = "write_failed"
    /\ Len(updates) >= 2 /\ NewColumns # {}
    /\ original_df = before

-----------------------------------------------------------------------------
(* C4: if an exception leaves the body of the with-block, the exit makes no  *)
(* batch_update call, folds nothing back, and the exception is re-raised.    *)

C4_BodyException ==
    (pc = "idle" /\ outcome = "body_exception") =>
        (calls = <<>> /\ original_df = before /\ raised)

\* The body changed the working copy and then raised.
C4_Witness ==
    /\ pc = "idle" /\ outcome = "body_exception"
    /\ copy_df # before
    /\ calls = <<>> /\ raised

-----------------------------------------------------------------------------
(* C5: a failure of the remote batch write is caught by the exit: the error  *)
(* is printed and the with-statement completes normally.                     *)

C5_WriteFailureCaught ==
    (pc = "idle" /\ outcome = "write_failed") =>
        /\ ~raised
        /\ \E i \in 1 .. Len(printed) : printed[i] = "Error during sheet update"
        /\ Len(calls) = 1

\* The write of a changed cell failed.
C5_Witness ==
    /\ pc = "idle" /\ outcome = "write_failed"
    /\ \E r \in Rows, c \in ExistingColumns : Differ(r, c)
    /\ ~raised

-----------------------------------------------------------------------------
(* C6: for existing columns, the cell descriptors are exactly the cells      *)
(* (r, c) where S and the working copy differ and are not both null: each    *)
(* such cell gets exactly one descriptor carrying the working copy's value,  *)
(* and no cell that is equal or null in both gets one.                       *)

\* As claimed: the descriptor carries the working copy's value itself.
C6_AsClaimed ==
    ExitedNormally =>
        \A r \in Rows, c \in ExistingColumns :
            IF Differ(r, c)
            THEN /\ Cardinality(At(CellAddress(r, c))) = 1
                 /\ \A i \in At(CellAddress(r, c)) : CarriedBy(i) = copy_df.data[r][c]
            ELSE At(CellAddress(r, c)) = {}

\* As amended: a null working-copy value is carried as the empty string.
C6_ExistingCells ==
    ExitedNormally =>
        \A r \in Rows, c \in ExistingColumns :
            IF Differ(r, c)
            THEN /\ Cardinality(At(CellAddress(r, c))) = 1
                 /\ \A i \in At(CellAddress(r, c)) :
                        CarriedBy(i) = IF copy_df.data[r][c] = NaN THEN ""
                                       ELSE copy_df.data[r][c]
            ELSE At(CellAddress(r, c)) = {}

\* Two cells of one row changed, each with its own descriptor, while the
\* other row has none.
C6_Witness ==
    /\ ExitedNormally
    /\ \E r \in Rows :
        /\ \A c \in Range(LoadedColumns) :
                /\ c \in ExistingColumns /\ Differ(r, c)
                /\ Cardinality(At(CellAddress(r, c))) = 1
        /\ \A r2 \in Rows \ {r}, c \in ExistingColumns :
                ~Differ(r2, c) /\ At(CellAddress(r2, c)) = {}

-----------------------------------------------------------------------------
(* C7: null and the empty string are distinct for the diff: a cell changed   *)
(* from null to "" gets a descriptor, a cell null in S and still null in the *)
(* working copy never does.                                                  *)

C7_NullVersusEmpty ==
    ExitedNormally =>
        \A r \in Rows, c \in ExistingColumns :
            /\ (before.data[r][c] = NaN /\ copy_df.data[r][c] = "") =>
                    /\ Cardinality(At(CellAddress(r, c))) = 1
                    /\ \A i \in At(CellAddress(r, c)) : CarriedBy(i) = ""
            /\ (before.data[r][c] = NaN /\ copy_df.data[r][c] = NaN) =>
                    At(CellAddress(r, c)) = {}

\* A null cell was set to "" and has its one descriptor, carrying "".
C7_Witness ==
    /\ ExitedNormally
    /\ \E r \in Rows, c \in ExistingColumns :
        /\ before.data[r][c] = NaN /\ copy_df.data[r][c] = ""
        /\ Cardinality(At(CellAddress(r, c))) = 1
        /\ \A i \in At(CellAddress(r, c)) : CarriedBy(i) = ""

-----------------------------------------------------------------------------
(* C8: a descriptor emitted for a cell whose working-copy value is null (a   *)
(* value of an existing column changed to null) carries the empty string;    *)
(* no descriptor ever carries null.                                          *)

C8_NullWrittenAsEmpty ==
    ExitedNormally =>
        /\ \A i \in 1 .. Len(updates) : CarriedBy(i) # NaN
        /\ \A r \in Rows, c \in ExistingColumns :
                copy_df.data[r][c] = NaN =>
                    \A i \in At(CellAddress(r, c)) : CarriedBy(i) = ""

\* A value was changed to null and its descriptor carries "".
C8_Witness ==
    /\ ExitedNormally
    /\ \E r \in Rows, c \in ExistingColumns :
        /\ before.data[r][c] = "x" /\ copy_df.data[r][c] = NaN
        /\ \E i \in At(CellAddress(r, c)) : CarriedBy(i) = ""

-----------------------------------------------------------------------------
(* C9: every column of the working copy that S lacks gets exactly one header *)
(* descriptor, at row 1 of that column's letter, carrying the column's name; *)
(* no header descriptor is emitted for a column S already has.               *)

C9_Headers ==
    ExitedNormally =>
        /\ \A c \in NewColumns :
                /\ Cardinality(At(HeaderAddress(c))) = 1
                /\ \A i \in At(HeaderAddress(c)) : CarriedBy(i) = c
        /\ \A i \in 1 .. Len(updates) :
                updates[i].range[2] = 1 =>
                    \E c \in NewColumns :
                        updates[i].range = HeaderAddress(c) /\ CarriedBy(i) = c

\* Two columns were added in one scope, each with its header descriptor.
C9_Witness ==
    /\ ExitedNormally
    /\ Cardinality(NewColumns) = 2
    /\ \A c \in NewColumns : Cardinality(At(HeaderAddress(c))) = 1
    /\ Cardinality({i \in 1 .. Len(updates) : updates[i].range[2] = 1}) = 2

-----------------------------------------------------------------------------
(* C10: for a new column, row r gets a cell descriptor if and only if the    *)
(* working copy holds a non-null value there; rows left null or set to null  *)
(* get none, and after a successful exit they are null in S for that column. *)

C10_NewColumnCells ==
    ExitedNormally =>
        \A c \in NewColumns, r \in Rows :
            /\ copy_df.data[r][c] # NaN =>
                    /\ Cardinality(At(CellAddress(r, c))) = 1
                    /\ \A i \in At(CellAddress(r, c)) : CarriedBy(i) = copy_df.data[r][c]
            /\ copy_df.data[r][c] = NaN =>
                    /\ At(CellAddress(r, c)) = {}
                    /\ outcome = "updated" =>
                            /\ c \in Range(original_df.columns)
                            /\ original_df.data[r][c] = NaN

\* A new column with a value in one row and null in the other, written and
\* folded back.
C10_Witness ==
    /\ pc = "idle" /\ outcome = "updated"
    /\ \E c \in NewColumns, r, r2 \in Rows :
        /\ copy_df.data[r][c] # NaN /\ Cardinality(At(CellAddress(r, c))) = 1
        /\ copy_df.data[r2][c] = NaN /\ At(CellAddress(r2, c)) = {}
        /\ original_df.data[r2][c] = NaN

-----------------------------------------------------------------------------
(* Vocabulary of the addressing properties *)

\* The 0-based position of column c in S as the scope found it: the layout
\* of the remote sheet.
PositionInS(c) == IndexOf(before.columns, c) - 1

\* The header descriptors of the exit, and the letter given to a new column.
HeaderDescriptors == {i \in 1 .. Len(updates) : CarriedBy(i) \in NewColumns}
LettersOf(c) == {updates[i].range[1] : i \in {j \in HeaderDescriptors : CarriedBy(j) = c}}

\* The number of new columns that come no later than c in the alphabet.
AlphabeticalRank(c) ==
    Cardinality({c2 \in NewColumns : IndexOf(Alphabetical, c2) <= IndexOf(Alphabetical, c)})

-----------------------------------------------------------------------------
(* C11: every cell descriptor for row index r of a column at 0-based         *)
(* position p in the snapshot is addressed at sheet row r+2 and at the       *)
(* letter of the 1-based index p+1 (1 is A, 26 is Z, 27 is AA); header       *)
(* descriptors are always at row 1 and cell descriptors never address row 1. *)
(* Columns S already has stand at their position in S; new columns at the    *)
(* position they take in S once the scope is folded back.                    *)

C11_AsClaimed ==
    /\ ColLetter(1) = "A" /\ ColLetter(26) = "Z" /\ ColLetter(27) = "AA"
    /\ ExitedNormally =>
        /\ \A r \in Rows, c \in ExistingColumns :
                Differ(r, c) =>
                    At(<<ColLetter(PositionInS(c) + 1), r + 2>>) # {}
        /\ outcome = "updated" =>
                \A r \in Rows, c \in NewColumns :
                    copy_df.data[r][c] # NaN =>
                        At(<<ColLetter(IndexOf(original_df.columns, c)), r + 2>>) # {}
        /\ \A i \in 1 .. Len(updates) :
                IF i \in HeaderDescriptors
                THEN updates[i].range[2] = 1
                ELSE \E r \in Rows : updates[i].range[2] = r + 2

-----------------------------------------------------------------------------
(* C12: when k new columns are added in one scope to a snapshot of N         *)
(* columns, the new columns are given exactly the letters of the positions   *)
(* N+1 .. N+k, one each and without gaps, and no new column is ever given a  *)
(* letter that belongs to a column S already has.                            *)

C12_AsClaimed ==
    ExitedNormally =>
        LET N == Len(before.columns)
            k == Cardinality(NewColumns)
        IN  /\ \A c \in NewColumns : Cardinality(LettersOf(c)) = 1
            /\ Cardinality(HeaderDescriptors) = k
            /\ UNION {LettersOf(c) : c \in NewColumns} = {ColLetter(N + j) : j \in 1 .. k}
            /\ \A c \in NewColumns, j \in 1 .. N : ColLetter(j) \notin LettersOf(c)

-----------------------------------------------------------------------------
(* C13: in iter8/data_sheet.py, several new columns added in one scope get   *)
(* their letters in ascending alphabetical order of column name, starting    *)
(* right after the last column of S, whatever the order in which the caller  *)
(* inserted them into the working copy.                                      *)

C13_AlphabeticalLetters ==
    (variant = "iter8" /\ ExitedNormally) =>
        \A c \in NewColumns :
            LettersOf(c) = {ColLetter(Len(before.columns) + AlphabeticalRank(c))}

\* "verse" was inserted ahead of "image", and "image" still got the first
\* letter after S's two columns.
C13_Witness ==
    /\ variant = "iter8" /\ ExitedNormally
    /\ NewColumns = {"image", "verse"}
    /\ IndexOf(copy_df.columns, "verse") < IndexOf(copy_df.columns, "image")
    /\ LettersOf("image") = {"C"} /\ LettersOf("verse") = {"D"}

-----------------------------------------------------------------------------
(* C14: after a normal exit whose batch write succeeded, S holds the working *)
(* copy's value for every row and every column of the working copy: the new  *)
(* columns are in S with all their values, null where the copy is null, and  *)
(* the existing columns are overwritten from the copy.                       *)

C14_FoldBack ==
    (pc = "idle" /\ outcome = "updated") =>
        \A c \in Range(copy_df.columns) :
            /\ c \in Range(original_df.columns)
            /\ \A r \in Rows : original_df.data[r][c] = copy_df.data[r][c]

\* A new column with a null row and an existing cell set to null, both
\* folded into S.
C14_Witness ==
    /\ pc = "idle" /\ outcome = "updated"
    /\ \E c \in NewColumns, r \in Rows :
            copy_df.data[r][c] = NaN /\ original_df.data[r][c] = NaN
    /\ \E c \in ExistingColumns, r \in Rows :
            /\ before.data[r][c] # NaN /\ copy_df.data[r][c] = NaN
            /\ original_df.data[r][c] = NaN

-----------------------------------------------------------------------------
(* C15: after a normal exit whose batch write succeeded, the column order of *)
(* S equals the column order of the working copy, including the relative     *)
(* order of the columns added in that scope.                                 *)

C15_AsClaimed ==
    (pc = "idle" /\ outcome = "updated") => original_df.columns = copy_df.columns

(* C15, amended: that holds in aiter8/data_sheet.py; in iter8/data_sheet.py  *)
(* S keeps its own columns in their order, followed by the columns added in  *)
(* that scope in ascending alphabetical order.                               *)

C15_ColumnOrder ==
    (pc = "idle" /\ outcome = "updated") =>
        IF variant = "aiter8"
        THEN original_df.columns = copy_df.columns
        ELSE original_df.columns = before.columns \o Sorted(NewColumns)

\* Two columns added in one scope, "verse" ahead of "image" and not both at
\* the end of the working copy, and folded into S.
C15_Witness ==
    /\ pc = "idle" /\ outcome = "updated"
    /\ NewColumns = {"image", "verse"}
    /\ IndexOf(copy_df.columns, "verse") < IndexOf(copy_df.columns, "image")
    /\ IndexOf(copy_df.columns, "verse") < Len(copy_df.columns) - 1
    /\ Len(original_df.columns) = 4

-----------------------------------------------------------------------------
(* C16: a normal exit that computed at least one descriptor makes exactly    *)
(* one batch_update call; that call carries all the header and cell          *)
(* descriptors of the scope and uses the USER_ENTERED input mode; no exit    *)
(* ever makes more than one remote write call.                               *)

-----------------------------------------------------------------------------
(* C17: entering a scope does no remote I/O and returns a working copy that  *)
(* is structurally independent of S: between enter and exit no mutation of   *)
(* the working copy (cell change, null assignment, column addition) changes  *)
(* a cell or a column of S or triggers a remote call.                        *)

C17_EnterAndBodyLeaveS ==
    [][pc' = "scope" =>
            /\ original_df' = original_df
            /\ calls' = <<>>
            /\ ~aliased']_vars

\* Inside a scope: a column was added to the working copy and a cell of it
\* set to null, and S holds what it held when the scope was entered.
C17_Witness ==
    /\ pc = "scope"
    /\ NewColumns # {}
    /\ \E r \in Rows, c \in ExistingColumns :
            before.data[r][c] # NaN /\ copy_df.data[r][c] = NaN
    /\ original_df = before
    /\ calls = <<>>

-----------------------------------------------------------------------------
(* C18: over any sequence of update scopes on one snapshot, each ending in a *)
(* successful write, a failed write, an exception in the scope or no         *)
(* detected change, S changes only in the exit step of a scope whose remote  *)
(* write succeeded; at every point S is the loaded snapshot with exactly the *)
(* working copies of the successful scopes folded in, in order.  Step by     *)
(* step: a successful exit puts every column of the working copy into S with *)
(* the copy's values and leaves the other columns of S as they were; every   *)
(* other step leaves S as it was.                                            *)

FoldedIn ==
    /\ \A c \in Range(copy_df.columns) :
            /\ c \in Range(original_df'.columns)
            /\ \A r \in Rows : original_df'.data[r][c] = copy_df.data[r][c]
    /\ \A c \in Range(original_df'.columns) \ Range(copy_df.columns) :
            /\ c \in Range(original_df.columns)
            /\ \A r \in Rows : original_df'.data[r][c] = original_df.data[r][c]

-----------------------------------------------------------------------------
(* C19: DataSheet.from_sheet converts every loaded cell whose string form    *)
(* equals TRUE in any letter case to the boolean true and every cell equal   *)
(* to FALSE in any letter case to the boolean false, and leaves every other  *)
(* cell value unchanged.                                                     *)

\* The characters a and b spell the same word, letter case aside.
SameWord(a, b) ==
    /\ Len(a) = Len(b)
    /\ \A i \in 1 .. Len(a) :
            a[i] = b[i] \/ <<a[i], b[i]>> \in CasePairs \/ <<b[i], a[i]>> \in CasePairs

C19_AsClaimed ==
    ld.pc = "return" =>
        \A r \in Rows, c \in Range(LoaderColumns) :
            LET cell == ld.records[r][c]
            IN  IF SameWord(cell.chars, <<"T", "R", "U", "E">>)
                THEN ld.df[r][c] = Bool(TRUE)
                ELSE IF SameWord(cell.chars, <<"F", "A", "L", "S", "E">>)
                THEN ld.df[r][c] = Bool(FALSE)
                ELSE ld.df[r][c] = cell

-----------------------------------------------------------------------------
(* C20: llm_json never raises to its caller: on any failure of the API call  *)
(* or of parsing the response it returns a mapping with an error string and  *)
(* success = false, and otherwise it returns the parsed mapping.             *)

\* The API call or the extraction and parsing of its response failed.
CallOrParseFailed ==
    \/ llm.answer.kind # "content"
    \/ ~json_decodes(llm.answer.content)

C20_NeverRaises ==
    /\ llm.pc # "raised"
    /\ llm.pc = "returned" =>
            IF CallOrParseFailed
            THEN /\ DOMAIN llm.result = {"error", "success"}
                 /\ llm.result.success = FALSE
                 /\ llm.result.error \in {"APIError", "IndexError", "TypeError",
                                          "JSONDecodeError"}
            ELSE /\ DOMAIN llm.result \subseteq {"a", "b"}
                 /\ \A i \in 1 .. Len(llm.answer.content) :
                        llm.answer.content[i] \in PairTokens =>
                            key_of(llm.answer.content[i]) \in DOMAIN llm.result
                 /\ \A k \in DOMAIN llm.result :
                        \E i \in 1 .. Len(llm.answer.content) :
                            /\ llm.answer.content[i] \in PairTokens
                            /\ key_of(llm.answer.content[i]) = k
                            /\ value_of(llm.answer.content[i]) = llm.result[k]

\* A response cut off before its closing brace came back as the error
\* mapping of a parse failure.
C20_Witness ==
    /\ llm.pc = "returned"
    /\ llm.answer.kind = "content"
    /\ llm.answer.content = <<"{", "a:1", ",">>
    /\ llm.result = [error |-> "JSONDecodeError", success |-> FALSE]

-----------------------------------------------------------------------------
(* C27: if the working copy drops or reorders existing columns in addition   *)
(* to changing a cell, every emitted descriptor for a remaining existing     *)
(* column is still addressed at that column's letter in S, the layout of the *)
(* remote sheet, and no descriptor is emitted for the dropped column.        *)

\* The columns of S that the working copy no longer has.
DroppedColumns == Range(before.columns) \ Range(copy_df.columns)

\* The working copy lacks a column of S, or holds S's columns in another order.
DroppedOrReordered ==
    LET kept(c) == c \in Range(before.columns)
    IN  SelectSeq(copy_df.columns, kept) # before.columns

C27_AsClaimed ==
    (ExitedNormally /\ DroppedOrReordered) =>
        /\ \A r \in Rows, c \in ExistingColumns :
                Differ(r, c) =>
                    \E i \in At(<<ColLetter(PositionInS(c) + 1), r + 2>>) :
                        CarriedBy(i) = IF copy_df.data[r][c] = NaN THEN ""
                                       ELSE copy_df.data[r][c]
        /\ \A r \in Rows, c \in DroppedColumns :
                At(<<ColLetter(PositionInS(c) + 1), r + 2>>) = {}

-----------------------------------------------------------------------------
(* C28: within the descriptor list of one exit no two descriptors share an   *)
(* address: each header cell and each data cell is written at most once per  *)
(* batch, for any combination of new columns and changed existing cells.     *)

C28_DistinctAddresses ==
    ExitedNormally =>
        \A i, j \in 1 .. Len(updates) :
            updates[i].range = updates[j].range => i = j

\* A batch with the header and a cell of a new column and a changed cell of
\* S's last column in the same row.
C28_Witness ==
    /\ ExitedNormally
    /\ \E c \in NewColumns, r \in Rows :
            /\ copy_df.data[r][c] # NaN
            /\ Differ(r, before.columns[Len(before.columns)])
    /\ Len(updates) = 3

-----------------------------------------------------------------------------
(* C30: sync is idempotent.  After a normal exit whose batch write           *)
(* succeeded, a new scope on the same snapshot that exits without mutation,  *)
(* or after the same cell assignments were applied again, computes zero      *)
(* descriptors and makes no remote call.                                     *)

\* The descriptors of a scope on S whose working copy is copy, the common
\* columns taken in alphabetical order; how many there are does not depend
\* on that order.
DescriptorsFor(copy) ==
    calculate_updates(variant, original_df, copy,
                      Sorted(Range(original_df.columns) \cap Range(copy.columns)))

C30_Idempotent ==
    /\ (pc = "idle" /\ outcome = "updated") =>
            /\ DescriptorsFor(original_df) = <<>>
            /\ \A r \in Rows, c \in Range(copy_df.columns) :
                    DescriptorsFor(set_cell(original_df, r, c, copy_df.data[r][c])) = <<>>
    /\ (ExitedNormally /\ original_df \notin Snapshots /\ copy_df = before) =>
            /\ updates = <<>>
            /\ calls = <<>>
            /\ outcome = "no_changes"

\* A scope changed S and the sheet; the next scope on S exited without a
\* mutation and sent nothing.
C30_Witness ==
    /\ ExitedNormally
    /\ nSteps = MaxSteps
    /\ original_df \notin Snapshots
    /\ copy_df = before
    /\ updates = <<>> /\ calls = <<>>

-----------------------------------------------------------------------------
(* C25: starting from a remote sheet equal to the loaded snapshot, after any *)
(* sequence of update scopes whose batch writes all succeed and are applied  *)
(* in full, the remote header row equals S's column names in S's column      *)
(* order and every remote data cell equals the corresponding cell of S, a    *)
(* null in S corresponding to an empty remote cell.                          *)

C25_AsClaimed ==
    remote.in_full =>
        /\ \A p \in 1 .. Len(Alphabetical) :
                remote.cells[<<Letters[p], 1>>] =
                    IF p <= Len(original_df.columns) THEN original_df.columns[p] ELSE ""
        /\ \A p \in 1 .. Len(original_df.columns), r \in Rows :
                remote.cells[<<Letters[p], r + 2>>] =
                    IF original_df.data[r][original_df.columns[p]] = NaN THEN ""
                    ELSE original_df.data[r][original_df.columns[p]]

-----------------------------------------------------------------------------
(* C26: if two update scopes are open on the same snapshot at the same time  *)
(* and both exit normally with successful writes, the scope that exits       *)
(* second emits descriptors only for cells its own caller changed: it never  *)
(* writes the pre-scope value back over a cell that only the first-exiting   *)
(* scope changed, neither on the remote sheet nor in S.                      *)

\* The second context has exited with a successful write, after the first
\* one had changed S under it.
SecondExitedAfterFirst ==
    /\ ctx2.pc = "exited"
    /\ ctx2.outcome = "updated"
    /\ ctx2.at_exit # ctx2.before

C26_AsClaimed ==
    SecondExitedAfterFirst =>
        \A r \in Rows, c \in Range(ctx2.before.columns) :
            (/\ ctx2.copy_df.data[r][c] = ctx2.before.data[r][c]
             /\ ctx2.at_exit.data[r][c] # ctx2.before.data[r][c]) =>
                /\ \A i \in 1 .. Len(ctx2.updates) :
                        ctx2.updates[i].range #
                            <<ColLetter(IndexOf(ctx2.at_exit.columns, c)), r + 2>>
                /\ ctx2.folded.data[r][c] = ctx2.at_exit.data[r][c]

-----------------------------------------------------------------------------
(* Vocabulary of the batched run *)

\* Row idx has been collected from its future.
Collected(idx) == idx \in Range(run.collected)

\* The LLM call of row idx failed: llm_json gave its error mapping.
LlmCallFailed(idx) ==
    /\ idx \in Range(run.finished)
    /\ ~result_of(idx).raised
    /\ result_of(idx).value = error_response("APIError")

\* The rows of a batch.
RowsOf(batch) == {batch[n][1] : n \in 1 .. Len(batch)}

\* The scopes of the run whose write failed.
FailedScopes == {m \in 1 .. Len(run.scopes) : ~run.scopes[m].write_ok}

-----------------------------------------------------------------------------
(* C21: in the batched run, a row whose LLM call fails is logged with its    *)
(* row index and skipped: once collected it is in no accumulator and in no   *)
(* batch of an update scope, no scope sends a cell of that row or a header   *)
(* for the keys of the error mapping, and the row is worked on once only.    *)

C21_AsClaimed ==
    run.pc # "off" =>
        \A idx \in RunRows :
            (LlmCallFailed(idx) /\ Collected(idx)) =>
                /\ \E n \in 1 .. Len(run.log) : run.log[n][2] = idx
                /\ idx \notin RowsOf(run.accumulated_results)
                /\ \A m \in 1 .. Len(run.scopes) :
                        /\ idx \notin RowsOf(run.scopes[m].batch)
                        /\ \A a \in run.scopes[m].cells : a[1] # idx
                        /\ run.scopes[m].headers \cap {"error", "success"} = {}
                /\ Cardinality({n \in 1 .. Len(run.finished) : run.finished[n] = idx}) = 1

-----------------------------------------------------------------------------
(* C22: in the parallel run a worker only computes the result of a row that  *)
(* was copied and submitted before, from that copy and the API's answer; no  *)
(* worker touches the DataSheet, and every update scope runs on the calling  *)
(* thread, so the calling thread is the only one that ever uses the          *)
(* snapshot.                                                                 *)

C22_OnlyCallingThread ==
    run.pc # "off" =>
        /\ run.users \subseteq {"main"}
        /\ \A n \in 1 .. Len(run.finished) :
                /\ run.finished[n] < run.submitted
                /\ \/ run.results[n] = [raised |-> TRUE, value |-> "RuntimeError"]
                   \/ \E answer \in RunAnswers :
                        run.results[n] =
                            process_record(record_of(run.rows[run.finished[n]]), answer)

\* An update scope has run while a worker was still to finish, and workers
\* have finished.
C22_Witness ==
    /\ run.pc # "off"
    /\ run.scopes # <<>>
    /\ run.finished # <<>>
    /\ Len(run.finished) < NRecords

-----------------------------------------------------------------------------
(* C23, as stated: every collected result is passed to exactly one update   *)
(* scope; the accumulator is flushed as soon as it holds UPDATE_BATCH_SIZE   *)
(* results and never holds more; after the last future the rest is flushed   *)
(* once; no result is flushed twice; and the run ends with an empty          *)
(* accumulator.                                                              *)

\* The results collected so far that did not raise.
CollectedResults == {idx \in Range(run.collected) : ~result_of(idx).raised}

\* The scopes whose batch holds row idx.
ScopesOf(idx) == {m \in 1 .. Len(run.scopes) : idx \in RowsOf(run.scopes[m].batch)}

-----------------------------------------------------------------------------
(* C24: in the parallel run the results are appended to the accumulator,    *)
(* and so flushed, in the order in which the workers complete, not in the    *)
(* order in which the rows were submitted.                                   *)

C24_AsClaimed ==
    run.pc # "off" =>
        \A n \in 1 .. Len(run.collected) : run.collected[n] = run.finished[n]

-----------------------------------------------------------------------------
(* C29: after an update scope whose write failed, its cell changes are not   *)
(* sent again: the snapshot stays without them, the accumulator is reset     *)
(* after the update in the loop whether or not the write succeeded, and no   *)
(* later scope has a row of the failed scope in its batch or sends one of    *)
(* its cells.  As stated, the claim has this of every descriptor, the        *)
(* headers of new columns among them, and has the accumulator reset after    *)
(* the last update too.                                                      *)

C29_FailedScopeNotResent ==
    run.pc # "off" =>
        \A m \in FailedScopes :
            /\ run.scopes[m].cells \cap run.cells = {}
            /\ run.pc # "done" =>
                    RowsOf(run.accumulated_results) \cap RowsOf(run.scopes[m].batch) = {}
            /\ \A n \in m + 1 .. Len(run.scopes) :
                    /\ RowsOf(run.scopes[n].batch) \cap RowsOf(run.scopes[m].batch) = {}
                    /\ run.scopes[n].cells \cap run.scopes[m].cells = {}

C29_AsClaimed ==
    /\ C29_FailedScopeNotResent
    /\ run.pc # "off" =>
            \A m \in 1 .. Len(run.scopes) :
                RowsOf(run.accumulated_results) \cap RowsOf(run.scopes[m].batch) = {}
    /\ run.pc # "off" =>
            \A m \in FailedScopes : \A n \in m + 1 .. Len(run.scopes) :
                run.scopes[n].headers \cap run.scopes[m].headers = {}

\* A scope whose write failed was followed by another scope that sent cells.
C29_Witness ==
    /\ run.pc # "off"
    /\ \E m \in FailedScopes : \E n \in m + 1 .. Len(run.scopes) : run.scopes[n].cells # {}

====
